---------------------------- MODULE Spec2Model ----------------------------
(***************************************************************************)
(* Model of get_system_inventory.py: a Redfish inventory collector.        *)
(*                                                                         *)
(* get_all(idrac_ip) polls one BMC (storage, network adapters, system      *)
(* root, PCIe devices) and returns one text: a comma-joined record or a    *)
(* failure description.  __main__ maps get_all over all_nodes with a       *)
(* multiprocessing.Pool of min(len(all_nodes), 64) processes and then      *)
(* appends the results, one per line, to inventory.csv.                    *)
(*                                                                         *)
(* Python strings are TLA+ strings, JSON objects are functions from keys   *)
(* to values (a missing key is a key outside DOMAIN), JSON arrays are      *)
(* sequences.  A BMC is a function from the URIs it serves to responses.   *)
(***************************************************************************)
EXTENDS Integers, Sequences, FiniteSets, TLC

VARIABLES
    all_nodes,   \* the host list handed to Pool.map
    server,      \* host address -> (URI -> response): what each BMC answers
    file,        \* the content of inventory.csv, a string
    pc,          \* position of __main__: "start", "map", "write", "done", "raised"
    processes,   \* number of worker processes of the Pool (0 before it exists)
    task,        \* per list index: "queued", "running" or "done"
    taken,       \* number of tasks handed out so far (the task queue is FIFO)
    attempts,    \* per list index: how many times get_all was started for it
    ret,         \* per list index: what get_all returned or raised, with its request log
    finished,    \* list indices in the order their get_all calls ended
    results,     \* the list p.map returned (<<>> before it returns)
    file0,       \* inventory.csv as it was when the first run started
    before,      \* inventory.csv as it was when this run started
    launched,    \* number of times the script was started
    runs         \* number of runs of the script that reached their end

vars == <<all_nodes, server, file, pc, processes, task, taken,
          attempts, ret, finished, results, file0, before, launched, runs>>

-----------------------------------------------------------------------------
(* Bounds of the model *)

MaxHosts == 3
MaxProcesses == 2
MaxRuns == 2

-----------------------------------------------------------------------------
(* Python string operations *)

Min(a, b) == IF a < b THEN a ELSE b

\* `w in s` for strings
Contains(s, w) ==
    \E i \in 1..(Len(s) - Len(w) + 1) : SubSeq(s, i, i + Len(w) - 1) = w

StartsWith(s, w) == Len(s) >= Len(w) /\ SubSeq(s, 1, Len(w)) = w

\* s.replace(old, new): every non-overlapping occurrence, left to right
RECURSIVE Replace(_, _, _)
Replace(s, old, new) ==
    IF Len(s) < Len(old) THEN s
    ELSE IF StartsWith(s, old)
         THEN new \o Replace(SubSeq(s, Len(old) + 1, Len(s)), old, new)
         ELSE SubSeq(s, 1, 1) \o Replace(SubSeq(s, 2, Len(s)), old, new)

\* sep.join(list)
RECURSIVE Join(_, _)
Join(sep, list) ==
    IF list = <<>> THEN ""
    ELSE IF Len(list) = 1 THEN list[1]
    ELSE list[1] \o sep \o Join(sep, Tail(list))

Digit(d) == SubSeq("0123456789", d + 1, d + 1)

\* str(n) for an int n >= 0
RECURSIVE IntStr(_)
IntStr(n) == IF n < 10 THEN Digit(n) ELSE IntStr(n \div 10) \o Digit(n % 10)

\* the decimal digits of r/d for 0 <= r < d, by long division (d has only
\* the prime factors 2 and 5, so the expansion ends)
RECURSIVE Fraction(_, _)
Fraction(r, d) ==
    IF r = 0 THEN ""
    ELSE Digit((10 * r) \div d) \o Fraction((10 * r) % d, d)

\* str(a / b) for ints a >= 0, b > 0: Python 3 true division gives a float,
\* printed with at least one digit after the point
FloatDivStr(a, b) ==
    IntStr(a \div b) \o "." \o (IF a % b = 0 THEN "0" ELSE Fraction(a % b, b))

-----------------------------------------------------------------------------
(* Exceptions: a call yields [exc, msg, val]; exc = "none" is a normal return *)

Return(v) == [exc |-> "none", msg |-> "", val |-> v]
Raise(e, m) == [exc |-> e, msg |-> m, val |-> <<>>]

OdataId == "@odata.id"

REDFISH_URI(idrac_ip) ==
    "https://" \o idrac_ip \o "/redfish/v1/Systems/System.Embedded.1"

\* requests.get(uri, ...): the BMC's answer, a connection failure or an HTTP
\* response; a URI the BMC does not serve is answered 404
NotFound == [kind |-> "http", status |-> 404, body |-> <<>>]
Get(srv, uri) == IF uri \in DOMAIN srv THEN srv[uri] ELSE NotFound

\* _make_request without its test for 404
_make_request_no404(srv, uri) ==
    LET response == Get(srv, uri) IN
    IF response.kind = "conn" THEN Raise("ConnectionError", "")
    ELSE IF response.status = 401
         THEN Raise("RedfishError", "Incorrect username/password. Given URI: " \o uri)
    ELSE IF response.status \notin {200, 202}
         THEN Raise("RedfishError", "Host may not support Redfish API. Given URI: " \o uri)
    ELSE Return(response.body)

_make_request(srv, uri) ==
    LET response == Get(srv, uri) IN
    IF response.kind = "conn" THEN Raise("ConnectionError", "")
    ELSE IF response.status = 401
         THEN Raise("RedfishError", "Incorrect username/password. Given URI: " \o uri)
    ELSE IF response.status = 404
         THEN Raise("RedfishError", "URI not found. Given URI: " \o uri)
    ELSE IF response.status \notin {200, 202}
         THEN Raise("RedfishError", "Host may not support Redfish API. Given URI: " \o uri)
    ELSE Return(response.body)


\* An exception leaving a function that has made the requests acc.log
Fail(acc, e, m) == [acc EXCEPT !.exc = e, !.msg = m]

-----------------------------------------------------------------------------
(* get_disk_information *)

\* 2**30.  CapacityBytes exceeds the range of the integers of the model
\* checker, so a capacity c is held as [gib, rem] with c = gib * 2^30 + rem
\* and 0 <= rem < 2^30.
TwoPow30 == 1073741824

\* int(c / (2**30)) in place of round
RoundGiBTruncating(c) == c.gib

\* round(c / (2**30)): the quotient is exact in a float (a division by a
\* power of two), and Python 3 rounds a tie to the even neighbour
RoundGiB(c) ==
    IF c.rem > TwoPow30 \div 2 THEN c.gib + 1
    ELSE IF c.rem < TwoPow30 \div 2 THEN c.gib
    ELSE IF c.gib % 2 = 0 THEN c.gib ELSE c.gib + 1

DriveName(drive_data) ==
    IntStr(RoundGiB(drive_data["CapacityBytes"])) \o " " \o drive_data["MediaType"]

\* the loop over data["Drives"]; acc = [exc, msg, log, all_drives]
RECURSIVE DrivesLoop(_, _, _, _)
DrivesLoop(srv, idrac_ip, drives, acc) ==
    IF drives = <<>> \/ acc.exc # "none" THEN acc
    ELSE IF OdataId \notin DOMAIN Head(drives) THEN Fail(acc, "KeyError", OdataId)
    ELSE
      LET uri == "https://" \o idrac_ip \o Head(drives)[OdataId]
          r == _make_request(srv, uri)
          acc1 == [acc EXCEPT !.log = Append(@, uri)]
      IN  IF r.exc # "none" THEN Fail(acc1, r.exc, r.msg)
          ELSE IF "CapacityBytes" \notin DOMAIN r.val
               THEN Fail(acc1, "KeyError", "CapacityBytes")
          ELSE IF "MediaType" \notin DOMAIN r.val
               THEN Fail(acc1, "KeyError", "MediaType")
          ELSE DrivesLoop(srv, idrac_ip, Tail(drives),
                          [acc1 EXCEPT !.all_drives = Append(@, DriveName(r.val))])

\* the loop over controller_list
RECURSIVE ControllersLoop(_, _, _, _)
ControllersLoop(srv, idrac_ip, controller_list, acc) ==
    IF controller_list = <<>> \/ acc.exc # "none" THEN acc
    ELSE
      LET uri == "https://" \o idrac_ip \o Head(controller_list)
          r == _make_request(srv, uri)
          acc1 == [acc EXCEPT !.log = Append(@, uri)]
      IN  IF r.exc # "none" THEN Fail(acc1, r.exc, r.msg)
          ELSE IF "Drives" \notin DOMAIN r.val THEN Fail(acc1, "KeyError", "Drives")
          ELSE ControllersLoop(srv, idrac_ip, Tail(controller_list),
                               IF r.val["Drives"] = <<>>
                               THEN acc1   \* print("No drives on controller ...")
                               ELSE DrivesLoop(srv, idrac_ip, r.val["Drives"], acc1))

\* [exc, msg, log, all_drives]: all_drives is the returned list
get_disk_information(srv, idrac_ip) ==
    LET uri == REDFISH_URI(idrac_ip) \o "/Storage"
        r == _make_request(srv, uri)
        acc == [exc |-> "none", msg |-> "", log |-> <<uri>>, all_drives |-> <<>>]
    IN  IF r.exc # "none" THEN Fail(acc, r.exc, r.msg)
        ELSE IF "Members" \notin DOMAIN r.val THEN Fail(acc, "KeyError", "Members")
        ELSE IF \E k \in 1..Len(r.val["Members"]) : OdataId \notin DOMAIN r.val["Members"][k]
             THEN Fail(acc, "KeyError", OdataId)
        ELSE ControllersLoop(srv, idrac_ip,
                             [k \in 1..Len(r.val["Members"]) |-> r.val["Members"][k][OdataId]],
                             acc)

-----------------------------------------------------------------------------
(* get_nic_information *)

\* data.get(key, data.get(alt)); None is held as the empty sequence <<>>,
\* which no JSON string of the model equals
None == <<>>
GetOr(data, key, alt) ==
    IF key \in DOMAIN data THEN <<data[key]>>
    ELSE IF alt \in DOMAIN data THEN <<data[alt]>>
    ELSE None

\* the loop over network_uri_list; acc = [exc, msg, log, all_nics], where
\* all_nics holds one GetOr value per adapter
RECURSIVE NicsLoop(_, _, _, _)
NicsLoop(srv, idrac_ip, network_uri_list, acc) ==
    IF network_uri_list = <<>> \/ acc.exc # "none" THEN acc
    ELSE
      LET item == Replace(Head(network_uri_list), "Interfaces", "Adapters")
          uri == "https://" \o idrac_ip \o item
          r == _make_request(srv, uri)
          acc1 == [acc EXCEPT !.log = Append(@, uri)]
      IN  IF r.exc # "none" THEN Fail(acc1, r.exc, r.msg)
          ELSE NicsLoop(srv, idrac_ip, Tail(network_uri_list),
                        [acc1 EXCEPT !.all_nics = Append(@, GetOr(r.val, "Model", "Id"))])

get_nic_information(srv, idrac_ip) ==
    LET uri == REDFISH_URI(idrac_ip) \o "/NetworkInterfaces"
        r == _make_request(srv, uri)
        acc == [exc |-> "none", msg |-> "", log |-> <<uri>>, all_nics |-> <<>>]
    IN  IF r.exc # "none" THEN Fail(acc, r.exc, r.msg)
        ELSE IF "Members" \notin DOMAIN r.val THEN Fail(acc, "KeyError", "Members")
        ELSE IF \E k \in 1..Len(r.val["Members"]) : OdataId \notin DOMAIN r.val["Members"][k]
             THEN Fail(acc, "KeyError", OdataId)
        ELSE NicsLoop(srv, idrac_ip,
                      [k \in 1..Len(r.val["Members"]) |-> r.val["Members"][k][OdataId]],
                      acc)

-----------------------------------------------------------------------------
(* get_general_information *)

irrelevant_devices == <<"Xeon", "C610/X99", "C600/X79", "G200eR2", "PCI Bridge">>

\* not any(word in name for word in irrelevant_devices)
Relevant(name) ==
    ~ \E k \in 1..Len(irrelevant_devices) : Contains(name, irrelevant_devices[k])

\* either word looked for in either field
OtherNicEitherField(manufacturer, name) ==
    \/ Contains(manufacturer, "Solarflare") \/ Contains(manufacturer, "Ethernet")
    \/ Contains(name, "Solarflare") \/ Contains(name, "Ethernet")

\* "Solarflare" in manufacturer or "Ethernet" in name
OtherNic(manufacturer, name) ==
    Contains(manufacturer, "Solarflare") \/ Contains(name, "Ethernet")

\* the loop over pciedevices; acc = [exc, msg, log, all_pcie_devices, other_nics].
\* A manufacturer or name of None makes `in` or join raise TypeError.
RECURSIVE DevicesLoop(_, _, _, _)
DevicesLoop(srv, idrac_ip, pciedevices, acc) ==
    IF pciedevices = <<>> \/ acc.exc # "none" THEN acc
    ELSE IF OdataId \notin DOMAIN Head(pciedevices) THEN Fail(acc, "KeyError", OdataId)
    ELSE
      LET uri == "https://" \o idrac_ip \o Head(pciedevices)[OdataId]
          r == _make_request(srv, uri)
          acc1 == [acc EXCEPT !.log = Append(@, uri)]
          manufacturer == GetOr(r.val, "Manufacturer", "Id")
          name == GetOr(r.val, "Name", "Description")
          text == Join(" ", <<manufacturer[1], name[1]>>)
      IN  IF r.exc # "none" THEN Fail(acc1, r.exc, r.msg)
          ELSE IF name = None \/ manufacturer = None THEN Fail(acc1, "TypeError", "")
          ELSE DevicesLoop(srv, idrac_ip, Tail(pciedevices),
                 [acc1 EXCEPT
                    !.all_pcie_devices =
                        IF Relevant(name[1]) THEN Append(@, text) ELSE @,
                    !.other_nics =
                        IF OtherNic(manufacturer[1], name[1]) THEN Append(@, text) ELSE @])

\* the first of the keys that data lacks, <<>> when it has them all
MissingKey(data, keys) ==
    IF \A k \in 1..Len(keys) : keys[k] \in DOMAIN data THEN <<>>
    ELSE <<keys[CHOOSE k \in 1..Len(keys) :
                  /\ keys[k] \notin DOMAIN data
                  /\ \A j \in 1..(k - 1) : keys[j] \in DOMAIN data]>>

NoGeneral ==
    [system_model |-> "", ram |-> 0, total_threads |-> 0, total_cores |-> <<0, 1>>,
     cpu_model |-> "", other_nics |-> <<>>, all_pcie_devices |-> ""]

\* [exc, msg, log, general]: general is the returned dict; total_cores, the
\* float total_threads / Count, is held as the pair <<total_threads, Count>>
get_general_information(srv, idrac_ip) ==
    LET uri == REDFISH_URI(idrac_ip)
        r == _make_request(srv, uri)
        acc == [exc |-> "none", msg |-> "", log |-> <<uri>>, general |-> NoGeneral]
        data == r.val
        loop == DevicesLoop(srv, idrac_ip, data["PCIeDevices"],
                            [exc |-> "none", msg |-> "", log |-> <<uri>>,
                             all_pcie_devices |-> <<>>, other_nics |-> <<>>])
    IN  IF r.exc # "none" THEN Fail(acc, r.exc, r.msg)
        ELSE IF "Model" \notin DOMAIN data THEN Fail(acc, "KeyError", "Model")
        ELSE IF "MemorySummary" \notin DOMAIN data
             THEN Fail(acc, "KeyError", "MemorySummary")
        ELSE IF "TotalSystemMemoryGiB" \notin DOMAIN data["MemorySummary"]
             THEN Fail(acc, "KeyError", "TotalSystemMemoryGiB")
        ELSE IF "ProcessorSummary" \notin DOMAIN data
             THEN Fail(acc, "KeyError", "ProcessorSummary")
        ELSE IF MissingKey(data["ProcessorSummary"], <<"LogicalProcessorCount", "Count">>) # <<>>
             THEN Fail(acc, "KeyError",
                       MissingKey(data["ProcessorSummary"], <<"LogicalProcessorCount", "Count">>)[1])
        ELSE IF data["ProcessorSummary"]["Count"] = 0
             THEN Fail(acc, "ZeroDivisionError", "division by zero")
        ELSE IF "Model" \notin DOMAIN data["ProcessorSummary"]
             THEN Fail(acc, "KeyError", "Model")
        ELSE IF "PCIeDevices" \notin DOMAIN data THEN Fail(acc, "KeyError", "PCIeDevices")
        ELSE IF loop.exc # "none"
             THEN [exc |-> loop.exc, msg |-> loop.msg, log |-> loop.log, general |-> NoGeneral]
        ELSE [exc |-> "none", msg |-> "", log |-> loop.log,
              general |->
                [system_model |-> data["Model"],
                 ram |-> data["MemorySummary"]["TotalSystemMemoryGiB"],
                 total_threads |-> data["ProcessorSummary"]["LogicalProcessorCount"],
                 total_cores |-> <<data["ProcessorSummary"]["LogicalProcessorCount"],
                                   data["ProcessorSummary"]["Count"]>>,
                 cpu_model |-> data["ProcessorSummary"]["Model"],
                 other_nics |-> loop.other_nics,
                 all_pcie_devices |-> Join("+", loop.all_pcie_devices)]]

-----------------------------------------------------------------------------
(* get_all *)

\* the try body with get_general_information called first, then
\* get_disk_information, then get_nic_information
TryBodyRootFirst(srv, idrac_ip) ==
    LET g == get_general_information(srv, idrac_ip)
        d == get_disk_information(srv, idrac_ip)
        n == get_nic_information(srv, idrac_ip)
        disks == Join(" + ", d.all_drives)
        failed(x, log) ==
            [exc |-> x.exc, msg |-> x.msg, val |-> "", log |-> log,
             all_drives |-> <<>>, disks |-> "", nics |-> <<>>, general |-> NoGeneral]
    IN  IF g.exc # "none" THEN failed(g, g.log)
        ELSE IF d.exc # "none" THEN failed(d, g.log \o d.log)
        ELSE IF n.exc # "none" THEN failed(n, g.log \o d.log \o n.log)
        ELSE IF \E k \in 1..Len(n.all_nics) : n.all_nics[k] = None
        THEN failed([exc |-> "TypeError", msg |-> ""], g.log \o d.log \o n.log)
        ELSE [exc |-> "none", msg |-> "",
              val |-> Join(",", <<idrac_ip, g.general.system_model, g.general.cpu_model,
                                  FloatDivStr(g.general.total_cores[1], g.general.total_cores[2]),
                                  IntStr(g.general.total_threads), IntStr(g.general.ram),
                                  disks, g.general.all_pcie_devices>>
                                \o [k \in 1..Len(n.all_nics) |-> n.all_nics[k][1]]
                                \o g.general.other_nics),
              log |-> g.log \o d.log \o n.log,
              all_drives |-> d.all_drives, disks |-> disks, nics |-> n.all_nics,
              general |-> g.general]

\* the body of the try statement: [exc, msg, val, log, all_drives, disks, nics,
\* general], val being all_information, log the URIs requested in order,
\* all_drives the list get_disk_information returned, and disks, nics and
\* general the locals as far as they were assigned
TryBody(srv, idrac_ip) ==
    LET d == get_disk_information(srv, idrac_ip)
        disks == Join(" + ", d.all_drives)
        n == get_nic_information(srv, idrac_ip)
        g == get_general_information(srv, idrac_ip)
        general == g.general
        fields == <<idrac_ip,
                    general.system_model,
                    general.cpu_model,
                    FloatDivStr(general.total_cores[1], general.total_cores[2]),
                    IntStr(general.total_threads),
                    IntStr(general.ram),
                    disks,
                    general.all_pcie_devices>>
    IN  IF d.exc # "none"
        THEN [exc |-> d.exc, msg |-> d.msg, val |-> "", log |-> d.log,
              all_drives |-> <<>>, disks |-> "", nics |-> <<>>, general |-> NoGeneral]
        ELSE IF n.exc # "none"
        THEN [exc |-> n.exc, msg |-> n.msg, val |-> "", log |-> d.log \o n.log,
              all_drives |-> d.all_drives, disks |-> disks, nics |-> <<>>, general |-> NoGeneral]
        ELSE IF g.exc # "none"
        THEN [exc |-> g.exc, msg |-> g.msg, val |-> "", log |-> d.log \o n.log \o g.log,
              all_drives |-> d.all_drives, disks |-> disks, nics |-> n.all_nics, general |-> NoGeneral]
        ELSE IF \E k \in 1..Len(n.all_nics) : n.all_nics[k] = None
        THEN [exc |-> "TypeError", msg |-> "", val |-> "", log |-> d.log \o n.log \o g.log,
              all_drives |-> d.all_drives, disks |-> disks, nics |-> n.all_nics, general |-> general]
        ELSE [exc |-> "none", msg |-> "",
              val |-> Join(",", fields
                                \o [k \in 1..Len(n.all_nics) |-> n.all_nics[k][1]]
                                \o general.other_nics),
              log |-> d.log \o n.log \o g.log,
              all_drives |-> d.all_drives, disks |-> disks, nics |-> n.all_nics, general |-> general]

\* the handlers without the clause for RedfishError
HandlersNoRedfishError(idrac_ip, t) ==
    IF t.exc = "ConnectionError"
    THEN [t EXCEPT !.exc = "none", !.msg = "", !.val = "Could not reach host " \o idrac_ip]
    ELSE t

\* the clause for ConnectionError returning the fields collected so far
\* after its text
HandlersPartialRecord(idrac_ip, t) ==
    IF t.exc = "ConnectionError"
    THEN [t EXCEPT !.exc = "none", !.msg = "",
                   !.val = "Could not reach host " \o idrac_ip \o "," \o t.disks]
    ELSE IF t.exc = "RedfishError"
    THEN [t EXCEPT !.exc = "none", !.msg = "", !.val = t.msg]
    ELSE t

\* a last clause `except Exception` that returns a text as well
HandlersCatchAll(idrac_ip, t) ==
    IF t.exc = "ConnectionError"
    THEN [t EXCEPT !.exc = "none", !.msg = "", !.val = "Could not reach host " \o idrac_ip]
    ELSE IF t.exc = "RedfishError"
    THEN [t EXCEPT !.exc = "none", !.msg = "", !.val = t.msg]
    ELSE [t EXCEPT !.exc = "none", !.msg = "", !.val = t.msg]

\* the except clauses: what get_all returns or raises for the outcome t of
\* its try body
Handlers(idrac_ip, t) ==
    IF t.exc = "ConnectionError"
    THEN [t EXCEPT !.exc = "none", !.msg = "", !.val = "Could not reach host " \o idrac_ip]
    ELSE IF t.exc = "RedfishError"
    THEN [t EXCEPT !.exc = "none", !.msg = "", !.val = t.msg]
    ELSE t

get_all(srv, idrac_ip) == Handlers(idrac_ip, TryBody(srv, idrac_ip))

-----------------------------------------------------------------------------
(* The BMCs: the answers a host's management controller gives *)

Ok(body) == [kind |-> "http", status |-> 200, body |-> body]
Status(code) == [kind |-> "http", status |-> code, body |-> <<>>]
ConnFail == [kind |-> "conn", status |-> 0, body |-> <<>>]

SysPath == "/redfish/v1/Systems/System.Embedded.1"
DevicePath(k) == SysPath \o "/PCIeDevice/" \o IntStr(k)
ControllerPath(c) == SysPath \o "/Storage/Controllers/RAID." \o IntStr(c)
DrivePath(c, k) == SysPath \o "/Storage/Drives/Disk." \o IntStr(c) \o "-" \o IntStr(k)
InterfacePath(a) == SysPath \o "/NetworkInterfaces/NIC." \o IntStr(a)
AdapterPath(a) == SysPath \o "/NetworkAdapters/NIC." \o IntStr(a)

Ref(path) == (OdataId :> path)

\* f1 @@ f2 @@ ... for a sequence of functions
RECURSIVE Merge(_)
Merge(fs) == IF fs = <<>> THEN <<>> ELSE IF Len(fs) = 1 THEN fs[1] ELSE fs[1] @@ Merge(Tail(fs))

\* The resources of a healthy BMC, by path.  b = [sys, devices, controllers,
\* adapters]: the system-root object without its PCIeDevices member, the PCIe
\* device objects, per controller the list of its drive objects, and the
\* network adapter objects.
Resources(b) ==
    (SysPath :> Ok(b.sys @@ ("PCIeDevices" :>
                             [k \in 1..Len(b.devices) |-> Ref(DevicePath(k))])))
    @@ ((SysPath \o "/Storage") :>
            Ok([Members |-> [c \in 1..Len(b.controllers) |-> Ref(ControllerPath(c))]]))
    @@ ((SysPath \o "/NetworkInterfaces") :>
            Ok([Members |-> [a \in 1..Len(b.adapters) |-> Ref(InterfacePath(a))]]))
    @@ Merge([k \in 1..Len(b.devices) |-> (DevicePath(k) :> Ok(b.devices[k]))])
    @@ Merge([c \in 1..Len(b.controllers) |->
                (ControllerPath(c) :>
                    Ok([Drives |-> [k \in 1..Len(b.controllers[c]) |-> Ref(DrivePath(c, k))]]))
                @@ Merge([k \in 1..Len(b.controllers[c]) |->
                            (DrivePath(c, k) :> Ok(b.controllers[c][k]))])])
    @@ Merge([a \in 1..Len(b.adapters) |-> (AdapterPath(a) :> Ok(b.adapters[a]))])

\* The BMC at address ip described by d = [base, faults]: the resources of
\* d.base, with the answer at path f.path replaced by f.resp for each f of
\* d.faults (f.resp.status = 202 keeps the body and answers 202 Accepted)
BMC(ip, d) ==
    LET res == Resources(d.base)
        new(p) == IF \A f \in d.faults : f.path # p THEN res[p]
                  ELSE LET f == CHOOSE f \in d.faults : f.path = p
                       IN  IF f.resp.status = 202
                           THEN [res[p] EXCEPT !.status = 202]
                           ELSE f.resp
    IN  [uri \in {"https://" \o ip \o p : p \in DOMAIN res} |->
            new(SubSeq(uri, Len("https://" \o ip) + 1, Len(uri)))]


-----------------------------------------------------------------------------
(* The bounded inputs: system roots, PCIe devices, drives, adapters *)

SysOK ==
    [Model |-> "R730", MemorySummary |-> [TotalSystemMemoryGiB |-> 128],
     ProcessorSummary |-> [LogicalProcessorCount |-> 32, Count |-> 2, Model |-> "E5-2650"]]
SysQuad == [SysOK EXCEPT !.ProcessorSummary.LogicalProcessorCount = 6,
                         !.ProcessorSummary.Count = 4]
SysZeroSockets == [SysOK EXCEPT !.ProcessorSummary.Count = 0]
SysNoModel == [MemorySummary |-> SysOK.MemorySummary, ProcessorSummary |-> SysOK.ProcessorSummary]

Xeon == [Manufacturer |-> "Intel Corporation", Name |-> "Intel Xeon Processor"]
Solarflare == [Manufacturer |-> "Solarflare Communications", Name |-> "Solarflare SFN8522"]
SolarflareById == [Id |-> "59-0", Name |-> "Solarflare SFN8522"]
X520 == [Manufacturer |-> "Intel Corporation", Name |-> "Ethernet 10G 2P X520 Adapter"]
Bridge == [Manufacturer |-> "Intel Corporation", Description |-> "PCI Bridge"]
Matrox == [Manufacturer |-> "Matrox Electronics Systems Ltd.", Name |-> "G200eR2"]
Perc == [Manufacturer |-> "LSI Logic", Name |-> "PERC H730 Mini"]
XeonEthernet == [Manufacturer |-> "Intel Corporation", Name |-> "Xeon D Ethernet Controller"]
Nameless == [Id |-> "3-0"]
Vendorless == [Name |-> "Ethernet Controller"]

DeviceLists ==
    {<<>>, <<Xeon, Solarflare>>, <<SolarflareById, X520>>, <<Perc, Nameless, Solarflare>>}
    \cup {<<dev>> : dev \in {Xeon, Solarflare, SolarflareById, X520, Bridge, Matrox,
                             Perc, XeonEthernet, Nameless, Vendorless}}

Drive(gib, rem, media) == [CapacityBytes |-> [gib |-> gib, rem |-> rem], MediaType |-> media]
Half == TwoPow30 \div 2
Drives ==
    {Drive(1, 0, "SSD"), Drive(3, 0, "SSD"), Drive(0, Half, "HDD"), Drive(1, Half, "HDD"),
     Drive(2, Half, "HDD"), Drive(1, Half - 1, "SSD"), Drive(1, Half + 1, "SSD"),
     Drive(931, 551247872, "HDD"), Drive(0, 1, "SSD"), Drive(9, TwoPow30 - 1, "HDD")}
ControllerLists ==
    {<<>>, << <<>> >>, << <<>>, <<>> >>,
     << <<>>, <<Drive(3, 0, "SSD")>> >>,
     << <<Drive(1, 0, "SSD"), Drive(1, Half, "HDD")>>, <<>>, <<Drive(2, Half, "HDD")>> >>,
     << <<[MediaType |-> "SSD"]>> >>}
    \cup {<< <<drive>> >> : drive \in Drives}

AdapterLists ==
    {<<>>, <<[Model |-> "X710"]>>, <<[Id |-> "NIC.Slot.2"]>>,
     <<[Model |-> "BCM57800", Id |-> "NIC.Integrated.1"], [Id |-> "NIC.Slot.2"]>>,
     <<[Description |-> "unnamed adapter"]>>}

Default ==
    [sys |-> SysOK, devices |-> <<Solarflare>>,
     controllers |-> << <<Drive(1, 0, "SSD")>> >>, adapters |-> <<[Model |-> "X710"]>>]

\* a host with two of everything
Wide ==
    [sys |-> SysQuad, devices |-> <<Xeon, X520>>,
     controllers |-> << <<Drive(1, 0, "SSD"), Drive(931, 551247872, "HDD")>>,
                        <<Drive(3, 0, "SSD")>> >>,
     adapters |-> <<[Model |-> "BCM57800"], [Id |-> "NIC.Slot.2"]>>]

Bases ==
    {[Default EXCEPT !.sys = x] : x \in {SysOK, SysQuad, SysZeroSockets, SysNoModel}}
    \cup {[Default EXCEPT !.devices = x] : x \in DeviceLists}
    \cup {[Default EXCEPT !.controllers = x] : x \in ControllerLists}
    \cup {[Default EXCEPT !.adapters = x] : x \in AdapterLists}
    \cup {Wide}

\* the answers a request can get in place of 200 and the resource
FaultResponses ==
    {ConnFail, Status(401), Status(404), Status(500), Status(201), Status(202)}

Fault(path, resp) == [path |-> path, resp |-> resp]

\* BMCs of a run over one host: every base, healthy; the default and the wide
\* base with one fault at any one of their resources; and the default base
\* with two faults at once
HostProfiles ==
    {[base |-> b, faults |-> {}] : b \in Bases}
    \cup UNION {{[base |-> b, faults |-> {Fault(p, r)}] :
                    p \in DOMAIN Resources(b), r \in FaultResponses} : b \in {Default, Wide}}
    \cup {[base |-> Default, faults |-> fs] :
            fs \in {{Fault(SysPath, Status(401)), Fault(SysPath \o "/Storage", Status(404))},
                    {Fault(SysPath, ConnFail), Fault(AdapterPath(1), Status(500))},
                    {Fault(DevicePath(1), Status(404)), Fault(DrivePath(1, 1), ConnFail)},
                    {Fault(SysPath \o "/NetworkInterfaces", Status(401)),
                     Fault(DevicePath(1), Status(401))}}}

\* BMCs of a run over several hosts
PoolProfiles ==
    {[base |-> Default, faults |-> {}],
     [base |-> Default, faults |-> {Fault(DrivePath(1, 1), Status(401))}],
     [base |-> Default, faults |-> {Fault(SysPath, ConnFail)}],
     [base |-> [Default EXCEPT !.sys = SysZeroSockets], faults |-> {}]}

-----------------------------------------------------------------------------
(* __main__ *)

\* "10.0.{}.{}".format(rack, unit) for rack 3: the head of all_nodes
Node(unit) == "10.0.3." \o IntStr(unit)

\* Pool(len(all_nodes)): one process per host
ProcessesPerHost(n) == n

\* min(len(all_nodes), 64); the ceiling 64 is scaled down to MaxProcesses so
\* that host lists of the model exceed it
Processes(n) == Min(n, MaxProcesses)

N == Len(all_nodes)

Pending ==
    [exc |-> "pending", msg |-> "", val |-> "", log |-> <<>>,
     all_drives |-> <<>>, disks |-> "", nics |-> <<>>, general |-> NoGeneral]

\* the return values in the order the calls ended (imap_unordered)
MapResultUnordered(n) == [k \in 1..n |-> ret[finished[k]].val]

\* what Pool.map returns: the return values by position in the iterable
MapResult(n) == [i \in 1..n |-> ret[i].val]

\* out.write(line + "\n") for each line of lines, after content
RECURSIVE WriteLines(_, _)
WriteLines(content, lines) ==
    IF lines = <<>> THEN content
    ELSE WriteLines(content \o Head(lines) \o "\n", Tail(lines))

\* open("inventory.csv", "w"): the file is truncated first
Overwritten(content, lines) == WriteLines("", lines)

\* open("inventory.csv", "a") and the writes: the file's content afterwards
Appended(content, lines) == WriteLines(content, lines)

\* the state of a script that has just been started
Launch ==
    /\ pc = "start"
    /\ processes = 0
    /\ task = [i \in 1..N |-> "queued"]
    /\ taken = 0
    /\ attempts = [i \in 1..N |-> 0]
    /\ ret = [i \in 1..N |-> Pending]
    /\ finished = <<>>
    /\ results = <<>>

\* inventory.csv when the script is first started: absent, or holding the
\* line of an earlier run
Earlier == "10.0.3.9,R630,E5-2620,12.0,24,64,,,\n"

\* the script is started on a list of n hosts whose BMCs are drawn from
\* profiles, with inventory.csv one of files
Started(n, profiles, files) ==
    /\ all_nodes = [k \in 1..n |-> Node(k)]
    /\ \E d \in [1..n -> profiles] :
         server = [ip \in {Node(k) : k \in 1..n} |->
                     BMC(ip, d[CHOOSE k \in 1..n : Node(k) = ip])]
    /\ file0 \in files
    /\ file = file0
    /\ before = file0
    /\ launched = 1
    /\ runs = 0
    /\ Launch

\* runs over host lists of one host and more (an earlier file with the
\* lists of one and two hosts)
Init ==
    \E n \in 1..MaxHosts :
        Started(n, PoolProfiles, IF n <= 2 THEN {"", Earlier} ELSE {""})

\* runs over one host, with every BMC of HostProfiles
InitHost == Started(1, HostProfiles, {""})

\* with Pool(min(len(all_nodes), 64)) as p: p.map(get_all, all_nodes) puts one
\* task per list entry on the task queue (chunksize is 1, as
\* len(all_nodes) < 4 * processes) and waits
CreatePool ==
    /\ pc = "start"
    /\ pc' = "map"
    /\ processes' = Processes(N)
    /\ UNCHANGED <<all_nodes, server, file, task, taken, attempts, ret, finished,
                   results, file0, before, launched, runs>>

\* the list indices whose get_all call is in flight, one per busy worker
InFlight == {i \in 1..N : task[i] = "running"}

\* a worker process is idle: it takes the next task off the queue and calls
\* get_all
Start ==
    /\ pc = "map"
    /\ Cardinality(InFlight) < processes
    /\ taken < N
    /\ taken' = taken + 1
    /\ task' = [task EXCEPT ![taken + 1] = "running"]
    /\ attempts' = [attempts EXCEPT ![taken + 1] = @ + 1]
    /\ UNCHANGED <<all_nodes, server, file, pc, processes, ret, finished, results,
                   file0, before, launched, runs>>

\* get_all returns or raises for list entry i; its worker sends the outcome
\* to the parent and is idle again
Finish(i) ==
    /\ pc = "map"
    /\ task[i] = "running"
    /\ ret' = [ret EXCEPT ![i] = get_all(server[all_nodes[i]], all_nodes[i])]
    /\ task' = [task EXCEPT ![i] = "done"]
    /\ finished' = Append(finished, i)
    /\ UNCHANGED <<all_nodes, server, file, pc, processes, taken, attempts, results,
                   file0, before, launched, runs>>

\* every task has ended and none raised: p.map returns the list of results
MapReturn ==
    /\ pc = "map"
    /\ \A i \in 1..N : task[i] = "done" /\ ret[i].exc = "none"
    /\ results' = MapResult(N)
    /\ pc' = "write"
    /\ UNCHANGED <<all_nodes, server, file, processes, task, taken, attempts,
                   ret, finished, file0, before, launched, runs>>

\* every task has ended and one raised (the map's result is ready only once
\* all its tasks are done): p.map raises the exception in the parent, which
\* ends the script
MapRaise ==
    /\ pc = "map"
    /\ \A i \in 1..N : task[i] = "done"
    /\ \E i \in 1..N : ret[i].exc # "none"
    /\ pc' = "raised"
    /\ UNCHANGED <<all_nodes, server, file, processes, task, taken, attempts,
                   ret, finished, results, file0, before, launched, runs>>

\* with open("inventory.csv", "a") as out: one write per result
WriteFile ==
    /\ pc = "write"
    /\ file' = Appended(file, results)
    /\ pc' = "done"
    /\ runs' = runs + 1
    /\ UNCHANGED <<all_nodes, server, processes, task, taken, attempts, ret,
                   finished, results, file0, before, launched>>

\* the script is run again, against the same hosts
Rerun ==
    /\ pc \in {"done", "raised"}
    /\ launched < MaxRuns
    /\ launched' = launched + 1
    /\ pc' = "start"
    /\ processes' = 0
    /\ task' = [i \in 1..N |-> "queued"]
    /\ taken' = 0
    /\ attempts' = [i \in 1..N |-> 0]
    /\ ret' = [i \in 1..N |-> Pending]
    /\ finished' = <<>>
    /\ results' = <<>>
    /\ before' = file
    /\ UNCHANGED <<all_nodes, server, file, file0, runs>>

Next ==
    \/ CreatePool
    \/ Start
    \/ \E i \in 1..N : Finish(i)
    \/ MapReturn
    \/ MapRaise
    \/ WriteFile
    \/ Rerun

Spec == Init /\ [][Next]_vars

SpecHost == InitHost /\ [][Next]_vars

-----------------------------------------------------------------------------
(* Vocabulary of the properties *)

Ip(i) == all_nodes[i]
Srv(i) == server[all_nodes[i]]
Indices == 1..Len(all_nodes)
Done(i) == task[i] = "done"
Range(seq) == {seq[k] : k \in 1..Len(seq)}
Last(seq) == seq[Len(seq)]

\* the answer the BMC of list entry i gives at uri
Answer(i, uri) == Get(Srv(i), uri)
ErrorStatus(r) == r.kind = "http" /\ r.status \notin {200, 202}
Unreachable(r) == r.kind = "conn"

\* list entry i ended in a failure of the enumerated kinds: its last request
\* got an error status or no connection
EnumFailed(i) ==
    /\ Done(i)
    /\ ret[i].log # <<>>
    /\ ErrorStatus(Answer(i, Last(ret[i].log))) \/ Unreachable(Answer(i, Last(ret[i].log)))

\* the lines of a text file: its content split at the newlines (text after
\* the last newline is a line of its own)
Lines(content) ==
    LET ends == {k \in 1..Len(content) : SubSeq(content, k, k) = "\n"}
        \* the position of the j-th newline; 0 for j = 0
        nth(j) == IF j = 0 THEN 0
                  ELSE CHOOSE k \in ends : Cardinality({e \in ends : e < k}) = j - 1
        whole == [j \in 1..Cardinality(ends) |->
                    SubSeq(content, nth(j - 1) + 1, nth(j) - 1)]
        tail == nth(Cardinality(ends)) + 1
    IN  IF tail > Len(content) THEN whole
        ELSE Append(whole, SubSeq(content, tail, Len(content)))

\* the outcomes of one run, in host-list order
Block == [i \in Indices |-> get_all(Srv(i), Ip(i)).val]
RECURSIVE Blocks(_)
Blocks(k) == IF k = 0 THEN <<>> ELSE Block \o Blocks(k - 1)

-----------------------------------------------------------------------------
(* Properties *)

\* C1: once p.map has returned, the result list has one outcome per entry of
\* the host list, and the i-th is what get_all returned for the i-th host,
\* whatever the order in which the calls ended.
C1_ResultsInHostOrder ==
    pc \in {"write", "done"} =>
        /\ Len(results) = Len(all_nodes)
        /\ \A i \in Indices :
             /\ ret[i] = get_all(Srv(i), Ip(i))
             /\ results[i] = ret[i].val

\* p.map has returned for three hosts or more of which the first ended last
C1_Witness ==
    /\ pc = "write"
    /\ Len(all_nodes) >= 3
    /\ Last(finished) = 1
    /\ finished[1] = 2

\* C2: get_all is started at most once per list entry, and exactly once by
\* the time p.map ends; when a host failed in one of the enumerated ways and
\* no host raised, p.map returns and every entry's outcome is the one its own
\* BMC determines.
C2_OnceEachAndIsolated ==
    /\ \A i \in Indices : attempts[i] <= 1
    /\ pc \notin {"start", "map"} => \A i \in Indices : attempts[i] = 1 /\ Done(i)
    /\ ( /\ pc \notin {"start", "map"}
         /\ \E i \in Indices : EnumFailed(i)
         /\ \A i \in Indices : EnumFailed(i) \/ ret[i].exc = "none" )
       => /\ pc \in {"write", "done"}
          /\ \A j \in Indices : results[j] = get_all(Srv(j), Ip(j)).val

\* a run over three hosts has ended; the host that ended first had failed and
\* the third, started after that, has its record
C2_Witness ==
    /\ pc = "done"
    /\ Len(all_nodes) >= 3
    /\ EnumFailed(finished[1])
    /\ ~ EnumFailed(3)
    /\ StartsWith(results[3], Ip(3) \o ",")

\* C3: the number of get_all calls in flight never exceeds
\* min(host count, ceiling).
C3_BoundedInFlight ==
    Cardinality(InFlight) <= Min(Len(all_nodes), MaxProcesses)

\* the ceiling is reached while a host is still waiting
C3_Witness ==
    /\ Cardinality(InFlight) = MaxProcesses
    /\ Len(all_nodes) > MaxProcesses
    /\ taken < Len(all_nodes)

\* C4: a request answered with an error status is the last request made to
\* the host, and the host's outcome is the text for that status with the URI
\* of that request in it; the host has one outcome in the result list.
C4_ErrorStatusOutcome ==
    \A i \in Indices : Done(i) =>
        \A k \in 1..Len(ret[i].log) :
            LET uri == ret[i].log[k]
                r == Answer(i, uri)
            IN  ErrorStatus(r) =>
                  /\ k = Len(ret[i].log)
                  /\ ret[i].exc = "none"
                  /\ Contains(ret[i].val, uri)
                  /\ r.status = 401 => Contains(ret[i].val, "Incorrect username/password")
                  /\ r.status = 404 => Contains(ret[i].val, "URI not found")
                  /\ r.status \notin {401, 404} =>
                        Contains(ret[i].val, "Host may not support Redfish API")
                  /\ pc \in {"write", "done"} =>
                        Cardinality({j \in 1..Len(results) : Contains(results[j], Ip(i))}) = 1

\* a host answered 404 after three requests or more had succeeded
C4_Witness ==
    \E i \in Indices :
        /\ Done(i)
        /\ Len(ret[i].log) >= 4
        /\ Answer(i, Last(ret[i].log)) = Status(404)

\* C5: a request that fails to connect is the last request made to the host,
\* and get_all returns exactly "Could not reach host <address>".
C5_CouldNotReachHost ==
    \A i \in Indices : Done(i) =>
        \A k \in 1..Len(ret[i].log) :
            Unreachable(Answer(i, ret[i].log[k])) =>
                /\ k = Len(ret[i].log)
                /\ ret[i].exc = "none"
                /\ ret[i].val = "Could not reach host " \o Ip(i)

\* the connection failed after the disks of the host had been collected
C5_Witness ==
    \E i \in Indices :
        /\ Done(i)
        /\ Len(ret[i].log) >= 4
        /\ Unreachable(Answer(i, Last(ret[i].log)))
        /\ ret[i].disks # ""

\* C6: the file is written only after every call has ended and is left alone
\* until then; a run that completes has added its outcomes, one line each in
\* host-list order, after the lines the file had, so that after `runs`
\* completed runs the file holds its first lines and then `runs` blocks of
\* one line per host.
C6_AppendedBlocks ==
    /\ pc \in {"write", "done"} => \A i \in Indices : Done(i)
    /\ pc # "done" => file = before
    /\ pc = "done" =>
         LET lines == Lines(file) IN
         /\ lines = Lines(before) \o results
         /\ lines = Lines(file0) \o Blocks(runs)
         /\ Len(lines) = Len(Lines(file0)) + runs * Len(all_nodes)

\* two runs over two hosts or more have been added to a file that was not empty
C6_Witness ==
    /\ runs = 2
    /\ Len(all_nodes) >= 2
    /\ file0 # ""
    /\ pc = "done"

-----------------------------------------------------------------------------
(* Vocabulary of the properties about one host's collection *)

RootUri(i) == REDFISH_URI(Ip(i))
StorageUri(i) == REDFISH_URI(Ip(i)) \o "/Storage"
NicsUri(i) == REDFISH_URI(Ip(i)) \o "/NetworkInterfaces"
Healthy(r) == r.kind = "http" /\ r.status \in {200, 202}

\* the object the BMC of entry i holds at the path a reference names
Target(i, ref) == Answer(i, "https://" \o Ip(i) \o ref[OdataId])

RECURSIVE Flatten(_)
Flatten(seqs) == IF seqs = <<>> THEN <<>> ELSE Head(seqs) \o Flatten(Tail(seqs))

\* the PCIe device objects of entry i, in the order the system root lists them
Devices(i) ==
    LET refs == Answer(i, RootUri(i)).body["PCIeDevices"] IN
    [k \in 1..Len(refs) |-> Target(i, refs[k]).body]

ManufacturerOf(dev) == IF "Manufacturer" \in DOMAIN dev THEN dev["Manufacturer"] ELSE dev["Id"]
NameOf(dev) == IF "Name" \in DOMAIN dev THEN dev["Name"] ELSE dev["Description"]
Descriptor(dev) == ManufacturerOf(dev) \o " " \o NameOf(dev)

Denylist == {"Xeon", "C610/X99", "C600/X79", "G200eR2", "PCI Bridge"}
Denylisted(dev) == \E word \in Denylist : Contains(NameOf(dev), word)
Notable(text) == Contains(text, "Solarflare") \/ Contains(text, "Ethernet")

\* the descriptors of the devices whose index is in S, in order
RECURSIVE Pick(_, _, _)
Pick(devs, S, k) ==
    IF k > Len(devs) THEN <<>>
    ELSE (IF k \in S THEN <<Descriptor(devs[k])>> ELSE <<>>) \o Pick(devs, S, k + 1)

\* get_general_information returned for entry i
GeneralCollected(i) == Done(i) /\ ret[i].general # NoGeneral

\* the storage controllers of entry i and, per controller, its drive answers
Controllers(i) ==
    LET refs == Answer(i, StorageUri(i)).body["Members"] IN
    [c \in 1..Len(refs) |-> Target(i, refs[c])]
DriveAnswers(i) ==
    Flatten([c \in 1..Len(Controllers(i)) |->
               LET refs == Controllers(i)[c].body["Drives"] IN
               [k \in 1..Len(refs) |-> Target(i, refs[k])]])

\* every storage resource of entry i answers, and every drive has its fields
StorageHealthy(i) ==
    /\ Healthy(Answer(i, StorageUri(i)))
    /\ \A c \in 1..Len(Controllers(i)) : Healthy(Controllers(i)[c])
    /\ \A k \in 1..Len(DriveAnswers(i)) :
         /\ Healthy(DriveAnswers(i)[k])
         /\ {"CapacityBytes", "MediaType"} \subseteq DOMAIN DriveAnswers(i)[k].body

\* every network resource of entry i answers
NicsHealthy(i) ==
    /\ Healthy(Answer(i, NicsUri(i)))
    /\ LET refs == Answer(i, NicsUri(i)).body["Members"] IN
       \A a \in 1..Len(refs) :
          Healthy(Answer(i, "https://" \o Ip(i)
                            \o Replace(refs[a][OdataId], "Interfaces", "Adapters")))

\* n is a whole number nearest to c / 2^30
Nearest(c, n) ==
    \/ n = c.gib /\ c.rem <= Half
    \/ n = c.gib + 1 /\ c.rem >= Half

\* 1 for a storage request, 2 for a network request, 3 for the system root,
\* 4 for a PCIe device
Rank(i, uri) ==
    LET path == SubSeq(uri, Len("https://" \o Ip(i)) + 1, Len(uri)) IN
    IF StartsWith(path, SysPath \o "/Storage") THEN 1
    ELSE IF StartsWith(path, SysPath \o "/Network") THEN 2
    ELSE IF path = SysPath THEN 3
    ELSE 4

\* the system root of entry i answers with all its fields and zero sockets
ZeroSockets(i) ==
    LET r == Answer(i, RootUri(i)) IN
    /\ Healthy(r)
    /\ {"Model", "MemorySummary", "ProcessorSummary"} \subseteq DOMAIN r.body
    /\ r.body["ProcessorSummary"]["Count"] = 0

-----------------------------------------------------------------------------
(* Properties of one host's collection *)

\* C7 as claimed: a device is left out of the PCIe descriptor exactly when its
\* name has a denylisted substring, and is in the notable-NIC list exactly
\* when its manufacturer or its name contains "Solarflare" or "Ethernet".
C7_AsClaimed ==
    \A i \in Indices : GeneralCollected(i) =>
        LET devs == Devices(i) IN
        /\ ret[i].general.all_pcie_devices =
              Join("+", Pick(devs, {k \in 1..Len(devs) : ~ Denylisted(devs[k])}, 1))
        /\ ret[i].general.other_nics =
              Pick(devs, {k \in 1..Len(devs) :
                            Notable(ManufacturerOf(devs[k])) \/ Notable(NameOf(devs[k]))}, 1)

\* C7 (amended): a device is left out of the PCIe descriptor exactly when its
\* name has a denylisted substring, and is in the notable-NIC list exactly
\* when its manufacturer contains "Solarflare" or its name contains
\* "Ethernet"; a device named "Intel Xeon Processor" is not in the PCIe
\* descriptor, and one named "Solarflare SFN8522" is in it, and is in the
\* notable-NIC list exactly when its manufacturer contains "Solarflare".
C7_Classification ==
    \A i \in Indices : GeneralCollected(i) =>
        LET devs == Devices(i) IN
        /\ ret[i].general.all_pcie_devices =
              Join("+", Pick(devs, {k \in 1..Len(devs) : ~ Denylisted(devs[k])}, 1))
        /\ ret[i].general.other_nics =
              Pick(devs, {k \in 1..Len(devs) :
                            \/ Contains(ManufacturerOf(devs[k]), "Solarflare")
                            \/ Contains(NameOf(devs[k]), "Ethernet")}, 1)
        /\ \A k \in 1..Len(devs) :
             /\ NameOf(devs[k]) = "Intel Xeon Processor" =>
                   ~ Contains(ret[i].general.all_pcie_devices, Descriptor(devs[k]))
             /\ NameOf(devs[k]) = "Solarflare SFN8522" =>
                   /\ Contains(ret[i].general.all_pcie_devices, Descriptor(devs[k]))
                   /\ Descriptor(devs[k]) \in Range(ret[i].general.other_nics)
                        <=> Contains(ManufacturerOf(devs[k]), "Solarflare")

\* a host with a device named "Solarflare SFN8522" whose manufacturer is its
\* Id, and an Ethernet adapter: one descriptor of two is a notable NIC
C7_Witness ==
    \E i \in Indices :
        /\ GeneralCollected(i)
        /\ Len(Devices(i)) = 2
        /\ Devices(i)[1] = SolarflareById
        /\ Len(ret[i].general.other_nics) = 1

\* C8: the disk field is the " + "-join of one descriptor per drive, in
\* controller order and then drive order, each a whole number nearest to the
\* capacity over 2^30, a space and the media type; controllers without
\* drives add nothing, and the collection goes on to the network requests
\* and, those answered, to the system root.
C8_DiskField ==
    \A i \in Indices : Done(i) /\ StorageHealthy(i) =>
        LET drives == DriveAnswers(i) IN
        /\ Len(ret[i].all_drives) = Len(drives)
        /\ \A k \in 1..Len(drives) :
             LET c == drives[k].body["CapacityBytes"] IN
             /\ \E n \in {c.gib, c.gib + 1} :
                  /\ Nearest(c, n)
                  /\ ret[i].all_drives[k] = IntStr(n) \o " " \o drives[k].body["MediaType"]
             /\ c = [gib |-> 1, rem |-> 0] /\ drives[k].body["MediaType"] = "SSD"
                  => ret[i].all_drives[k] = "1 SSD"
             /\ c = [gib |-> 3, rem |-> 0] /\ drives[k].body["MediaType"] = "SSD"
                  => ret[i].all_drives[k] = "3 SSD"
        /\ ret[i].disks = Join(" + ", ret[i].all_drives)
        /\ drives = <<>> => ret[i].disks = ""
        /\ NicsUri(i) \in Range(ret[i].log)
        /\ NicsHealthy(i) => RootUri(i) \in Range(ret[i].log)
        /\ GeneralCollected(i) =>
             \A k \in 1..Len(Devices(i)) :
                 ("https://" \o Ip(i) \o DevicePath(k)) \in Range(ret[i].log)

\* a host with two controllers, neither with a drive, has its record
C8_Witness ==
    \E i \in Indices :
        /\ Done(i)
        /\ StorageHealthy(i)
        /\ Len(Controllers(i)) = 2
        /\ DriveAnswers(i) = <<>>
        /\ ret[i].exc = "none"
        /\ ret[i].disks = ""
        /\ Len(ret[i].log) = 7

\* C9 as claimed: no storage or network request is made to a host before its
\* system-root request.
C9_AsClaimed ==
    \A i \in Indices : Done(i) =>
        \A k \in 1..Len(ret[i].log) :
            Rank(i, ret[i].log[k]) \in {1, 2} =>
                \E j \in 1..(k - 1) : ret[i].log[j] = RootUri(i)

\* C9 (amended): the requests to a host are made in the order storage
\* collection with its controllers and drives, network-interfaces collection
\* with its adapters, system root, PCIe devices; the first is the storage
\* collection, and a failure outcome names the first failing resource in
\* that order.
C9_RequestOrder ==
    \A i \in Indices : Done(i) =>
        LET log == ret[i].log IN
        /\ log # <<>>
        /\ log[1] = StorageUri(i)
        /\ \A j, k \in 1..Len(log) : j < k => Rank(i, log[j]) <= Rank(i, log[k])
        /\ \A k \in 1..Len(log) :
             log[k] = RootUri(i) =>
                /\ NicsUri(i) \in {log[j] : j \in 1..(k - 1)}
                /\ StorageHealthy(i) /\ NicsHealthy(i)
        /\ EnumFailed(i) =>
             /\ Contains(ret[i].val, Last(log)) \/ Unreachable(Answer(i, Last(log)))
             /\ \A uri \in DOMAIN Srv(i) :
                  ~ Healthy(Answer(i, uri)) => Rank(i, uri) >= Rank(i, Last(log))

\* the system root of a host would answer 401 and its storage collection
\* answers 404: the outcome names the storage collection
C9_Witness ==
    \E i \in Indices :
        /\ Done(i)
        /\ Answer(i, RootUri(i)) = Status(401)
        /\ Answer(i, StorageUri(i)) = Status(404)
        /\ ret[i].val = "URI not found. Given URI: " \o StorageUri(i)

\* C10: no ConnectionError or RedfishError leaves get_all, any other
\* exception does (a socket count of 0 raises ZeroDivisionError); once a call
\* has raised, p.map returns nothing, the run ends in the exception, and the
\* file stays as it was when the run started.
C10_OtherExceptionsEndTheRun ==
    /\ \A i \in Indices : ret[i].exc \notin {"ConnectionError", "RedfishError"}
    /\ \A i \in Indices :
         Done(i) /\ RootUri(i) \in Range(ret[i].log) /\ ZeroSockets(i)
            => ret[i].exc = "ZeroDivisionError"
    /\ (\E i \in Indices : Done(i) /\ ret[i].exc # "none") =>
         /\ pc \in {"map", "raised"}
         /\ results = <<>>
         /\ file = before
    /\ (\A i \in Indices : Done(i)) /\ (\E i \in Indices : ret[i].exc # "none") =>
         ~ ENABLED MapReturn

\* a run over three hosts has ended in the exception of one, while another
\* host's record had been collected; nothing was written
C10_Witness ==
    /\ pc = "raised"
    /\ Len(all_nodes) >= 3
    /\ \E j \in Indices : ret[j].exc = "none" /\ StartsWith(ret[j].val, Ip(j) \o ",")
    /\ \E j \in Indices : ret[j].exc = "ZeroDivisionError"
    /\ file = before

=============================================================================
